---- MODULE Spec2Model ----
(***************************************************************************)
(* Model of amazon_price_change.py: one run of main().                     *)
(*                                                                         *)
(* Text values (environment values, product titles) are sequences of       *)
(* one-character strings.  Floats are records [kind, v]: kind "fin" with   *)
(* v the amount in hundredths, kind "inf" with v the sign (1 or -1), kind  *)
(* "nan".  Writes to standard output are assumed to succeed.               *)
(***************************************************************************)
EXTENDS Integers, Sequences, FiniteSets, TLC

VARIABLES env, pc, config, resp, snapshot, exc, raisedIn, out, net, calls,
          smsResult, emailResult, smtpIdx, smtpLog, smtpExc, exitStatus

vars == <<env, pc, config, resp, snapshot, exc, raisedIn, out, net, calls,
          smsResult, emailResult, smtpIdx, smtpLog, smtpExc, exitStatus>>

(* ---------------------------------------------------------------- bounds *)

\* at most this many environment variables are absent or empty in a run
MaxDeviant == 1

(* ------------------------------------------------------------ text, float *)

Digits == <<"0", "1", "2", "3", "4", "5", "6", "7", "8", "9">>

IsDigit(c) == \E i \in 1..10 : Digits[i] = c

DigitVal(c) == (CHOOSE i \in 1..10 : Digits[i] = c) - 1

Lower(c) ==
    CASE c = "I" -> "i"
      [] c = "N" -> "n"
      [] c = "F" -> "f"
      [] c = "A" -> "a"
      [] OTHER -> c

LowerAll(s) == [i \in 1..Len(s) |-> Lower(s[i])]

RECURSIVE StripLeft(_)
StripLeft(s) == IF s # <<>> /\ s[1] = " " THEN StripLeft(Tail(s)) ELSE s

RECURSIVE StripRight(_)
StripRight(s) ==
    IF s # <<>> /\ s[Len(s)] = " "
    THEN StripRight(SubSeq(s, 1, Len(s) - 1))
    ELSE s

Strip(s) == StripRight(StripLeft(s))

AllDigits(s) == \A i \in 1..Len(s) : IsDigit(s[i])

RECURSIVE IntVal(_)
IntVal(s) ==
    IF s = <<>> THEN 0
    ELSE 10 * IntVal(SubSeq(s, 1, Len(s) - 1)) + DigitVal(s[Len(s)])

DotAt(s) == IF \E i \in 1..Len(s) : s[i] = "."
            THEN CHOOSE i \in 1..Len(s) :
                     s[i] = "." /\ \A j \in 1..(i - 1) : s[j] # "."
            ELSE 0

IntPart(s) == IF DotAt(s) = 0 THEN s ELSE SubSeq(s, 1, DotAt(s) - 1)

FracPart(s) == IF DotAt(s) = 0 THEN <<>> ELSE SubSeq(s, DotAt(s) + 1, Len(s))

\* digits [ "." digits ] with at least one digit
IsDecimal(s) ==
    /\ AllDigits(IntPart(s))
    /\ AllDigits(FracPart(s))
    /\ Len(IntPart(s)) + Len(FracPart(s)) > 0

\* value in hundredths of a decimal with at most two fractional digits
Hundredths(s) ==
    LET f  == FracPart(s)
        f2 == IF Len(f) = 0 THEN <<"0", "0">>
              ELSE IF Len(f) = 1 THEN <<f[1], "0">>
              ELSE SubSeq(f, 1, 2)
    IN  100 * IntVal(IntPart(s)) + IntVal(f2)

Fin(v) == [kind |-> "fin", v |-> v]
Inf(sign) == [kind |-> "inf", v |-> sign]
NaN == [kind |-> "nan", v |-> 0]

\* float(text): [ok, val]; ok = FALSE is ValueError
ParseFloat(s) ==
    LET t      == Strip(s)
        signed == t # <<>> /\ t[1] \in {"+", "-"}
        sign   == IF t # <<>> /\ t[1] = "-" THEN -1 ELSE 1
        body   == IF signed THEN Tail(t) ELSE t
        lb     == LowerAll(body)
    IN  IF lb \in {<<"i", "n", "f">>, <<"i", "n", "f", "i", "n", "i", "t", "y">>}
        THEN [ok |-> TRUE, val |-> Inf(sign)]
        ELSE IF lb = <<"n", "a", "n">>
        THEN [ok |-> TRUE, val |-> NaN]
        ELSE IF IsDecimal(body)
        THEN [ok |-> TRUE, val |-> Fin(sign * Hundredths(body))]
        ELSE [ok |-> FALSE, val |-> NaN]

Ord(a) == IF a.kind = "inf" THEN a.v * 1000000000 ELSE a.v

\* a <= b on floats: false whenever either side is NaN
FloatLe(a, b) == a.kind # "nan" /\ b.kind # "nan" /\ Ord(a) <= Ord(b)

(* ------------------------------------------------------------ environment *)

\* the variables Config.from_env reads, in the order it reads them
EnvKeys == << "AMAZON_ACCESS_KEY", "AMAZON_SECRET_KEY", "AMAZON_ASSOCIATE_TAG",
              "AMAZON_REGION", "TWILIO_ACCOUNT_SID", "TWILIO_AUTH_TOKEN",
              "TWILIO_FROM_NUMBER", "TWILIO_TO_NUMBER", "GMAIL_USER",
              "GMAIL_APP_PASSWORD", "EMAIL_FROM", "EMAIL_TO",
              "AMAZON_PRODUCT_ID", "EXPECTED_PRICE" >>

KeySet == {EnvKeys[i] : i \in 1..Len(EnvKeys)}

StrKeys == KeySet \ {"EXPECTED_PRICE"}

OptionalKeysLax == {"AMAZON_REGION", "TWILIO_TO_NUMBER"}

\* read with os.getenv(key, default); every other key with os.environ[key]
OptionalKeys == {"AMAZON_REGION"}

\* os.getenv's default: "US" for the region, None (no text) otherwise
GetenvDefault(k) == IF k = "AMAZON_REGION" THEN <<"U", "S">> ELSE <<>>

Unset == [set |-> FALSE, val |-> <<>>]
SetTo(v) == [set |-> TRUE, val |-> v]

\* EXPECTED_PRICE texts of the runs explored
PriceTexts == { <<"5", "0", ".", "0", "0">>, <<" ", "5", "0", " ">>,
                <<"4", "9", ".", "9", "9">>, <<"a", "b", "c">>, <<".">>,
                <<"0">>, <<"-", "5">>, <<"i", "n", "f">>, <<"-", "I", "N", "F">>,
                <<"n", "a", "n">> }

\* the process environment in which D's variables deviate as f says
EnvOf(D, f, t) ==
    [k \in KeySet |->
        IF k \in D THEN f[k]
        ELSE IF k = "EXPECTED_PRICE" THEN SetTo(t)
        ELSE SetTo(<<"x">>)]

(* ---------------------------------------------------------- configuration *)

NoConfig == [built |-> FALSE, str |-> <<>>, expected_price |-> NaN]

MissingKeys(e) ==
    {i \in 1..Len(EnvKeys) : ~e[EnvKeys[i]].set /\ EnvKeys[i] \notin OptionalKeys}

FirstMissing(e) ==
    EnvKeys[CHOOSE i \in MissingKeys(e) : \A j \in MissingKeys(e) : i <= j]

EnvValue(e, k) == IF e[k].set THEN e[k].val ELSE GetenvDefault(k)

\* float() failing replaced by a default target of 0.0
from_env_defaulting(e) ==
    IF MissingKeys(e) # {}
    THEN [err |-> "KeyError", key |-> FirstMissing(e), config |-> NoConfig]
    ELSE [err |-> "none", key |-> "",
          config |-> [built |-> TRUE,
                      str |-> [k \in StrKeys |-> EnvValue(e, k)],
                      expected_price |->
                          IF ParseFloat(EnvValue(e, "EXPECTED_PRICE")).ok
                          THEN ParseFloat(EnvValue(e, "EXPECTED_PRICE")).val
                          ELSE Fin(0)]]

\* an empty value treated like a missing variable
from_env_nonempty(e) ==
    IF MissingKeys(e) # {}
    THEN [err |-> "KeyError", key |-> FirstMissing(e), config |-> NoConfig]
    ELSE IF \E k \in StrKeys : EnvValue(e, k) = <<>>
    THEN [err |-> "KeyError", key |-> CHOOSE k \in StrKeys : EnvValue(e, k) = <<>>,
          config |-> NoConfig]
    ELSE IF ~ParseFloat(EnvValue(e, "EXPECTED_PRICE")).ok
    THEN [err |-> "ValueError", key |-> "EXPECTED_PRICE", config |-> NoConfig]
    ELSE [err |-> "none", key |-> "",
          config |-> [built |-> TRUE,
                      str |-> [k \in StrKeys |-> EnvValue(e, k)],
                      expected_price |->
                          ParseFloat(EnvValue(e, "EXPECTED_PRICE")).val]]

\* Config.from_env: the arguments are evaluated in order, so the first absent
\* required variable raises KeyError before EXPECTED_PRICE is parsed
from_env(e) ==
    IF MissingKeys(e) # {}
    THEN [err |-> "KeyError", key |-> FirstMissing(e), config |-> NoConfig]
    ELSE IF ~ParseFloat(EnvValue(e, "EXPECTED_PRICE")).ok
    THEN [err |-> "ValueError", key |-> "EXPECTED_PRICE", config |-> NoConfig]
    ELSE [err |-> "none", key |-> "",
          config |-> [built |-> TRUE,
                      str |-> [k \in StrKeys |-> EnvValue(e, k)],
                      expected_price |->
                          ParseFloat(EnvValue(e, "EXPECTED_PRICE")).val]]

(* ---------------------------------------------------------- product lookup *)

\* a code point that no UTF-8 encoder accepts (a lone surrogate)
Surrogate == "U+D800"

Titles == { <<"T", "V">>, <<"T", Surrogate>> }

\* listing prices in hundredths
Amounts == {4999, 5000, 5001}

NoTitle == [present |-> FALSE, v |-> <<>>]
NoAmount == [present |-> FALSE, v |-> 0]
Present(v) == [present |-> TRUE, v |-> v]

\* what amazon.get_items does: raises, or returns a list of 0 or 1 products
\* whose title and first listing price are there or not
Responses ==
    { [raises |-> r, items |-> 0, title |-> NoTitle, amount |-> NoAmount]
        : r \in {"KeyError", "Exception"} }
    \cup { [raises |-> "none", items |-> 0, title |-> NoTitle, amount |-> NoAmount] }
    \cup { [raises |-> "none", items |-> 1, title |-> t, amount |-> a]
             : t \in {NoTitle} \cup {Present(x) : x \in Titles},
               a \in {NoAmount} \cup {Present(x) : x \in Amounts} }

NoResponse == [raises |-> "none", items |-> -1, title |-> NoTitle,
               amount |-> NoAmount]

NoSnapshot == [title |-> <<>>, price |-> NaN, fetched |-> FALSE]

\* a missing product, title or price replaced by a default
get_product_info_defaulting(reply) ==
    IF reply.raises # "none"
    THEN [err |-> reply.raises, snap |-> NoSnapshot]
    ELSE [err |-> "none",
          snap |-> [title |-> IF reply.title.present THEN reply.title.v ELSE <<>>,
                    price |-> IF reply.amount.present THEN Fin(reply.amount.v)
                              ELSE Fin(0),
                    fetched |-> TRUE]]

\* get_product_info: nothing is caught, every failure reaches the caller
get_product_info(reply) ==
    IF reply.raises # "none"
    THEN [err |-> reply.raises, snap |-> NoSnapshot]
    ELSE IF reply.items = 0
    THEN [err |-> "IndexError", snap |-> NoSnapshot]
    ELSE IF ~reply.title.present
    THEN [err |-> "AttributeError", snap |-> NoSnapshot]
    ELSE IF ~reply.amount.present
    THEN [err |-> "TypeError", snap |-> NoSnapshot]
    ELSE [err |-> "none",
          snap |-> [title |-> reply.title.v, price |-> Fin(reply.amount.v),
                    fetched |-> TRUE]]

PriceAtOrBelowStrict(price, expected) ==
    FloatLe(price, expected) /\ ~FloatLe(expected, price)

\* the comparison of check_price_and_notify
PriceAtOrBelow(price, expected) == FloatLe(price, expected)

(* ------------------------------------------------------------------- email *)

\* MIMEText encodes the body, falling back from us-ascii to utf-8
BodyEncodable(title) == \A i \in 1..Len(title) : title[i] # Surrogate

\* the calls of the SMTP session, in program order
SmtpSequence == <<"connect", "ehlo", "starttls", "ehlo", "login", "sendmail">>

\* what a session call may raise
StepErrors(step) ==
    IF step = "login"
    THEN {"SMTPAuthenticationError", "SMTPException", "OSError"}
    ELSE {"SMTPException", "OSError"}

AfterStepNoClose(i, ok) ==
    IF ok THEN (IF i < Len(SmtpSequence) THEN "smtp" ELSE "smtp_close")
    ELSE "email_return"

\* where control goes after session call i: the with-block closes the
\* connection on every exit, and a failed constructor never enters it
AfterStep(i, ok) ==
    IF ok THEN (IF i < Len(SmtpSequence) THEN "smtp" ELSE "smtp_close")
    ELSE IF i = 1 THEN "email_return"
    ELSE "smtp_close"

\* the except clauses of send_email, first match first
EmailDiagnostic(e) ==
    IF e = "none" THEN "email_sent"
    ELSE IF e = "SMTPAuthenticationError" THEN "email_auth_error"
    ELSE IF e = "SMTPException" THEN "email_smtp_error"
    ELSE "email_error"

\* the except clauses of main, first match first
MainDiagnostic(e) ==
    IF e = "KeyError" THEN "missing_env_var" ELSE "error_occurred"

(* ------------------------------------------------------------------ the run *)

Init ==
    /\ \E D \in {X \in SUBSET KeySet : Cardinality(X) <= MaxDeviant} :
         \E f \in [D -> {Unset, SetTo(<<>>)}] :
           \E t \in PriceTexts : env = EnvOf(D, f, t)
    /\ pc = "load"
    /\ config = NoConfig
    /\ resp = NoResponse
    /\ snapshot = NoSnapshot
    /\ exc = "none"
    /\ raisedIn = "none"
    /\ out = <<>>
    /\ net = <<>>
    /\ calls = <<>>
    /\ smsResult = "none"
    /\ emailResult = "none"
    /\ smtpIdx = 0
    /\ smtpLog = <<>>
    /\ smtpExc = "none"
    /\ exitStatus = -1

\* main: config = Config.from_env()
LoadConfig ==
    /\ pc = "load"
    /\ LET r == from_env(env) IN
         IF r.err = "none"
         THEN /\ config' = r.config
              /\ pc' = "fetch"
              /\ UNCHANGED <<exc, raisedIn>>
         ELSE /\ exc' = r.err
              /\ raisedIn' = "config"
              /\ pc' = "except"
              /\ UNCHANGED config
    /\ UNCHANGED <<env, resp, snapshot, out, net, calls, smsResult,
                   emailResult, smtpIdx, smtpLog, smtpExc, exitStatus>>

\* check_price_and_notify: the lookup and the three lines printed after it
FetchProduct ==
    /\ pc = "fetch"
    /\ \E rsp \in Responses :
         LET r == get_product_info(rsp) IN
           /\ resp' = rsp
           /\ net' = Append(net, "lookup")
           /\ IF r.err = "none"
              THEN /\ snapshot' = r.snap
                   /\ out' = out \o <<"fetching", "product_info">>
                   /\ pc' = "compare"
                   /\ UNCHANGED <<exc, raisedIn>>
              ELSE /\ out' = Append(out, "fetching")
                   /\ exc' = r.err
                   /\ raisedIn' = "lookup"
                   /\ pc' = "except"
                   /\ UNCHANGED snapshot
    /\ UNCHANGED <<env, config, calls, smsResult, emailResult, smtpIdx,
                   smtpLog, smtpExc, exitStatus>>

\* check_price_and_notify: if price <= config.expected_price
Compare ==
    /\ pc = "compare"
    /\ IF PriceAtOrBelow(snapshot.price, config.expected_price)
       THEN /\ out' = Append(out, "triggered")
            /\ pc' = "sms"
       ELSE /\ out' = Append(out, "above_target")
            /\ pc' = "return"
    /\ UNCHANGED <<env, config, resp, snapshot, exc, raisedIn, net, calls, smsResult,
                   emailResult, smtpIdx, smtpLog, smtpExc, exitStatus>>

\* send_sms: everything is inside the try, so it always returns
SendSms ==
    /\ pc = "sms"
    /\ calls' = Append(calls, "sms")
    /\ \E o \in {"sent", "client_error", "send_error"} :
         /\ net' = IF o = "client_error" THEN net ELSE Append(net, "sms")
         /\ smsResult' = IF o = "sent" THEN "sid" ELSE "None"
         /\ out' = Append(out, IF o = "sent" THEN "sms_sent" ELSE "sms_failed")
    /\ pc' = "email_compose"
    /\ UNCHANGED <<env, config, resp, snapshot, exc, raisedIn, emailResult, smtpIdx,
                   smtpLog, smtpExc, exitStatus>>

\* send_email: the message is composed before the try
EmailCompose ==
    /\ pc = "email_compose"
    /\ calls' = Append(calls, "email")
    /\ IF BodyEncodable(snapshot.title)
       THEN /\ pc' = "email_ctx"
            /\ UNCHANGED <<exc, raisedIn>>
       ELSE /\ exc' = "UnicodeEncodeError"
            /\ raisedIn' = "email"
            /\ pc' = "except"
    /\ UNCHANGED <<env, config, resp, snapshot, out, net, smsResult, emailResult,
                   smtpIdx, smtpLog, smtpExc, exitStatus>>

\* send_email: ssl.create_default_context(), also before the try
EmailContext ==
    /\ pc = "email_ctx"
    /\ \E ok \in BOOLEAN :
         IF ok
         THEN /\ pc' = "smtp"
              /\ smtpIdx' = 1
              /\ UNCHANGED <<exc, raisedIn>>
         ELSE /\ exc' = "SSLError"
              /\ raisedIn' = "email"
              /\ pc' = "except"
              /\ UNCHANGED smtpIdx
    /\ UNCHANGED <<env, config, resp, snapshot, out, net, calls, smsResult,
                   emailResult, smtpLog, smtpExc, exitStatus>>

\* send_email: one call of the SMTP session
SmtpStep ==
    /\ pc = "smtp"
    /\ \E o \in {"none"} \cup StepErrors(SmtpSequence[smtpIdx]) :
         /\ smtpLog' = Append(smtpLog, [step |-> SmtpSequence[smtpIdx],
                                        err |-> o])
         /\ smtpExc' = o
         /\ pc' = AfterStep(smtpIdx, o = "none")
         /\ smtpIdx' = IF o = "none" /\ smtpIdx < Len(SmtpSequence)
                       THEN smtpIdx + 1 ELSE smtpIdx
    /\ net' = IF smtpIdx = 1 THEN Append(net, "smtp") ELSE net
    /\ UNCHANGED <<env, config, resp, snapshot, exc, raisedIn, out, calls, smsResult,
                   emailResult, exitStatus>>

\* leaving the with-block: QUIT, which may itself be refused, then close()
SmtpClose ==
    /\ pc = "smtp_close"
    /\ smtpLog' = Append(smtpLog, [step |-> "close", err |-> "none"])
    /\ \E o \in {"none", "SMTPException"} :
         smtpExc' = IF o = "none" THEN smtpExc ELSE o
    /\ pc' = "email_return"
    /\ UNCHANGED <<env, config, resp, snapshot, exc, raisedIn, out, net, calls,
                   smsResult, emailResult, smtpIdx, exitStatus>>

\* send_email: return True, or the except clause that matches
EmailReturn ==
    /\ pc = "email_return"
    /\ emailResult' = IF smtpExc = "none" THEN "True" ELSE "False"
    /\ out' = Append(out, EmailDiagnostic(smtpExc))
    /\ pc' = "return"
    /\ UNCHANGED <<env, config, resp, snapshot, exc, raisedIn, net, calls, smsResult,
                   smtpIdx, smtpLog, smtpExc, exitStatus>>

\* main returns: the interpreter exits with status 0
MainReturn ==
    /\ pc = "return"
    /\ exitStatus' = 0
    /\ pc' = "done"
    /\ UNCHANGED <<env, config, resp, snapshot, exc, raisedIn, out, net, calls,
                   smsResult, emailResult, smtpIdx, smtpLog, smtpExc>>

\* main: except KeyError / except Exception, both raise SystemExit(1)
MainExcept ==
    /\ pc = "except"
    /\ out' = Append(out, MainDiagnostic(exc))
    /\ exitStatus' = 1
    /\ pc' = "done"
    /\ UNCHANGED <<env, config, resp, snapshot, exc, raisedIn, net, calls, smsResult,
                   emailResult, smtpIdx, smtpLog, smtpExc>>

Next ==
    \/ LoadConfig
    \/ FetchProduct
    \/ Compare
    \/ SendSms
    \/ EmailCompose
    \/ EmailContext
    \/ SmtpStep
    \/ SmtpClose
    \/ EmailReturn
    \/ MainReturn
    \/ MainExcept

Spec == Init /\ [][Next]_vars

TypeOK ==
    /\ pc \in {"load", "fetch", "compare", "sms", "email_compose", "email_ctx",
               "smtp", "smtp_close", "email_return", "return", "except", "done"}
    /\ exitStatus \in {-1, 0, 1}
    /\ config.built \in BOOLEAN
    /\ smtpIdx \in 0..Len(SmtpSequence)


(* ------------------------------------------------------------- properties *)

Range(q) == {q[i] : i \in 1..Len(q)}

RequiredSet == \A k \in KeySet \ {"AMAZON_REGION"} : env[k].set

PriceText == env["EXPECTED_PRICE"].val

\* the response does not carry a first product with a title and a price
LookupFailed ==
    \/ resp.raises # "none"
    \/ resp.items = 0
    \/ ~resp.title.present
    \/ ~resp.amount.present

C2_SmsFailureHarmless ==
    (pc = "done" /\ smsResult = "None") =>
        (calls = <<"sms", "email">> /\ exitStatus = 0)

\* C3: a finished run has exit status 1 exactly when configuration loading
\* or the product lookup failed, and 0 otherwise.
C3_ExitStatus ==
    pc = "done" =>
        /\ exitStatus \in {0, 1}
        /\ exitStatus = 1 <=> (~config.built \/ LookupFailed)

\* C4: when a required environment variable is absent, no network call is
\* ever made and the run ends with exit status 1.
C4_MissingEnvNoNetwork ==
    (\E k \in KeySet \ {"AMAZON_REGION"} : ~env[k].set) =>
        /\ net = <<>>
        /\ pc = "done" => exitStatus = 1

\* a finished run in which a required variable was absent
C4_Witness ==
    /\ pc = "done"
    /\ ~env["TWILIO_TO_NUMBER"].set
    /\ exitStatus = 1

\* C5: when the lookup fails (the call raises, no item, title or price
\* missing) no title or price is produced, neither notifier is invoked and
\* the run ends with exit status 1.
C5_LookupFailureSurfaced ==
    (pc \notin {"load", "fetch"} /\ config.built /\ LookupFailed) =>
        /\ ~snapshot.fetched
        /\ calls = <<>>
        /\ pc \in {"except", "done"}
        /\ pc = "done" => exitStatus = 1

\* a finished run whose lookup returned no item
C5_Witness ==
    /\ pc = "done"
    /\ resp.raises = "none"
    /\ resp.items = 0
    /\ exitStatus = 1

\* C6: once send_email has been called and has finished, it has returned
\* True or False and raised nothing; any failure gave False; an
\* authentication failure is logged with the authentication diagnostic and
\* any other failure with another one.
C6_EmailNeverPropagates ==
    (pc = "done" /\ "email" \in Range(calls)) =>
        /\ raisedIn # "email"
        /\ emailResult \in {"True", "False"}
        /\ (\E i \in 1..Len(smtpLog) : smtpLog[i].err # "none")
               => emailResult = "False"
        /\ (\E i \in 1..Len(smtpLog) :
               smtpLog[i].err = "SMTPAuthenticationError")
               <=> "email_auth_error" \in Range(out)

C8_FieldsNonEmpty ==
    /\ config.built => \A k \in StrKeys : config.str[k] # <<>>
    /\ (pc # "load"
          /\ \E k \in KeySet \ {"AMAZON_REGION"} : env[k] = SetTo(<<>>)) =>
           (~config.built /\ net = <<>> /\ calls = <<>>)

\* C8 amended: every constructed Config has each string field equal to the
\* value of its variable, which is present for every required variable but
\* may be empty ("US" for an absent AMAZON_REGION).  A required variable that
\* is present but empty makes construction fail only if it is EXPECTED_PRICE,
\* and then there is no lookup and no notification; with any other variable
\* empty the Config is constructed whenever EXPECTED_PRICE parses.
C8_FieldsFromEnvironment ==
    /\ config.built =>
           /\ RequiredSet
           /\ \A k \in StrKeys :
                  config.str[k] =
                      IF env[k].set THEN env[k].val ELSE <<"U", "S">>
    /\ (pc # "load" /\ env["EXPECTED_PRICE"] = SetTo(<<>>)) =>
           (~config.built /\ net = <<>> /\ calls = <<>>)
    /\ (pc # "load" /\ RequiredSet /\ ParseFloat(PriceText).ok) =>
           config.built

\* a run that reached the lookup with an empty required field
C8_Witness ==
    /\ config.built
    /\ config.str["EMAIL_TO"] = <<>>
    /\ net # <<>>

\* C9: the session calls happen in the order connect, EHLO, STARTTLS, EHLO,
\* login, sendmail, close; login only after STARTTLS succeeded, sendmail only
\* after login succeeded; and once the connection is open it has been closed
\* when send_email returns, whatever failed.
C9_SmtpOrder ==
    LET order == <<"connect", "ehlo", "starttls", "ehlo", "login", "sendmail">>
        n     == Len(smtpLog)
        body  == IF n > 0 /\ smtpLog[n].step = "close" THEN n - 1 ELSE n
    IN  /\ body <= Len(order)
        /\ \A i \in 1..body : smtpLog[i].step = order[i]
        /\ \A i \in 1..n :
               smtpLog[i].step = "login" =>
                   \E j \in 1..(i - 1) : smtpLog[j] = [step |-> "starttls",
                                                      err |-> "none"]
        /\ \A i \in 1..n :
               smtpLog[i].step = "sendmail" =>
                   \E j \in 1..(i - 1) : smtpLog[j] = [step |-> "login",
                                                      err |-> "none"]
        /\ (pc \in {"email_return", "return", "done"}
              /\ [step |-> "connect", err |-> "none"] \in Range(smtpLog)) =>
               smtpLog[n].step = "close"

\* send_email returned after a refused login, the connection closed
C9_Witness ==
    /\ pc = "return"
    /\ [step |-> "login", err |-> "SMTPAuthenticationError"] \in Range(smtpLog)
    /\ smtpLog[Len(smtpLog)].step = "close"
    /\ emailResult = "False"

\* C10: the missing-variable diagnostic is printed only when a required
\* variable was absent; a failure after configuration loaded is reported
\* with the generic diagnostic.
C10_MissingDiagnosticOnlyForEnv ==
    /\ "missing_env_var" \in Range(out) =>
           \E k \in KeySet \ {"AMAZON_REGION"} : ~env[k].set
    /\ (pc = "done" /\ raisedIn \in {"lookup", "email"}) =>
           "error_occurred" \in Range(out)

====
